---- MODULE Spec2Model ----
(***************************************************************************)
(* A model of the escpos session (src/main.go): the text style, the        *)
(* feature configuration, the buffered output sink (a bufio.Writer with    *)
(* its default buffer) and the transport behind it.  Bytes are integers    *)
(* 0..255; a frame, the output buffer and the wire are sequences of bytes. *)
(***************************************************************************)
EXTENDS Integers, Sequences, FiniteSets

VARIABLES
    Style,   \* Escpos.Style
    config,  \* Escpos.config
    buf,     \* bytes held by Escpos.dst (the bufio.Writer's buffer)
    berr,    \* Escpos.dst's latched error (bufio.Writer.err), TRUE when set
    wire,    \* every byte the transport's Write has accepted, in order
    tx,      \* behaviour of the transport's Write: "ok", "fail" or "partial"
    np,      \* the networkPrinter, its connection's deadlines and the clock
    ret,     \* the last call: its name, its arguments and what it returned
    frames,  \* the WriteRaw calls of the last call, in order
    calls,   \* the transport calls (Write, Read) of the last call, in order
    ops      \* number of calls made on the session

vars == <<Style, config, buf, berr, wire, tx, np, ret, frames, calls, ops>>

----------------------------------------------------------------------------
(* Bounds of the model *)

\* number of calls made on one session
MaxOps == 2

\* length of the longest barcode payload
MaxCodeLen == 14

\* the clock stops at MaxTime
MaxTime == 5

\* the longest time the peer of a connection takes
MaxWait == 3

----------------------------------------------------------------------------
(* Constants of the program *)

JustifyLeft == 0
JustifyCenter == 1
JustifyRight == 2

FontA == 0
FontB == 1

HRIPositionBoth == 3

ImageProcessDither == 0
ImageProcessThreshold == 1

QRCodeErrorCorrectionLevelL == 48
QRCodeErrorCorrectionLevelH == 51
QRCodeModel1 == 49
QRCodeModel2 == 50

BarcodeUPCA == 0
BarcodeUPCE == 1
BarcodeEAN13 == 2
BarcodeEAN8 == 3
BarcodeCode39 == 4
BarcodeITF == 5
BarcodeCodabar == 6

RT_STATUS_ONLINE == 1
RT_STATUS_PAPER == 4
RT_MASK_ONLINE == 8
RT_MASK_PAPER == 3
RT_MASK_NOPAPER == 3
RT_MASK_LOWPAPER == 2

esc == 27
gs == 29
dle == 16

\* bufio.NewWriter(printer): the writer's default buffer size
BufSize == 4096

Byte == 0..255

----------------------------------------------------------------------------
(* Helpers *)

\* a & b on bytes
RECURSIVE BitAnd(_, _)
BitAnd(a, b) ==
    IF a = 0 \/ b = 0 THEN 0
    ELSE (a % 2) * (b % 2) + 2 * BitAnd(a \div 2, b \div 2)

boolToByte(b) == IF b THEN 1 ELSE 0

\* s[n+1:]
Drop(s, n) == SubSeq(s, n + 1, Len(s))

\* s[:n]
Take(s, n) == SubSeq(s, 1, n)

\* n bytes of the letter 'A'
Fill(n) == [i \in 1..n |-> 65]

----------------------------------------------------------------------------
(* The transport *)

\* Printer.Write(p): the count accepted and whether the error is nil
TransportWrite(p) ==
    CASE tx = "ok" -> [n |-> Len(p), ok |-> TRUE]
      [] tx = "fail" -> [n |-> 0, ok |-> FALSE]
      [] tx = "partial" -> [n |-> Len(p) \div 2, ok |-> FALSE]

\* what Printer.Read(buf) may answer to a 1-byte buffer
NoResponse == [n |-> 0, ok |-> TRUE, b |-> 0]
ReadError == [n |-> 0, ok |-> FALSE, b |-> 0]
Response(b) == [n |-> 1, ok |-> TRUE, b |-> b]

----------------------------------------------------------------------------
(* The output sink: bufio.Writer over the transport.  A sink value k holds   *)
(* the buffer, the latched error, the wire, and the transport calls and      *)
(* WriteRaw calls made so far by the running call.                           *)

Sink0 ==
    [buf |-> buf, berr |-> berr, wire |-> wire, calls |-> <<>>, frames |-> <<>>]

\* a writer with a 16-byte buffer
AvailableOfSmallBuffer(k) == 16 - Len(k.buf)

\* bufio.Writer.Available
Available(k) == BufSize - Len(k.buf)

\* a transport write that puts its bytes on the wire twice
SinkTransportWriteTwice(k, p) ==
    LET r == TransportWrite(p) IN
    [k EXCEPT !.wire = @ \o Take(p, r.n) \o Take(p, r.n),
              !.calls = Append(@, [t |-> "Write", len |-> Len(p), n |-> r.n, ok |-> r.ok])]

\* one Printer.Write(p) made by the bufio.Writer
SinkTransportWrite(k, p) ==
    LET r == TransportWrite(p) IN
    [k EXCEPT !.wire = @ \o Take(p, r.n),
              !.calls = Append(@, [t |-> "Write", len |-> Len(p), n |-> r.n, ok |-> r.ok])]

\* bufio.Writer.Flush
Flush(k) ==
    IF k.berr THEN k
    ELSE IF k.buf = <<>> THEN k
    ELSE LET r == TransportWrite(k.buf)
             k1 == SinkTransportWrite(k, k.buf) IN
         IF r.ok THEN [k1 EXCEPT !.buf = <<>>]
         ELSE [k1 EXCEPT !.buf = Drop(k.buf, r.n), !.berr = TRUE]

\* a writer that copies p into its buffer whatever its size and whatever error
\* is latched
BufioWriteUnchecked(k, p, nn) ==
    [k |-> [k EXCEPT !.buf = @ \o p],
     nn |-> IF k.berr THEN nn ELSE nn + Len(p), ok |-> ~k.berr]

\* bufio.Writer.Write(p): [k, nn, ok]
RECURSIVE BufioWrite(_, _, _)
BufioWrite(k, p, nn) ==
    IF Len(p) > Available(k) /\ ~k.berr
    THEN IF k.buf = <<>>
         THEN \* large write, empty buffer: written directly from p
              LET r == TransportWrite(p)
                  k1 == [SinkTransportWrite(k, p) EXCEPT !.berr = ~r.ok] IN
              BufioWrite(k1, Drop(p, r.n), nn + r.n)
         ELSE LET n == Available(k)
                  k1 == Flush([k EXCEPT !.buf = @ \o Take(p, n)]) IN
              BufioWrite(k1, Drop(p, n), nn + n)
    ELSE IF k.berr
         THEN [k |-> k, nn |-> nn, ok |-> FALSE]
         ELSE [k |-> [k EXCEPT !.buf = @ \o p], nn |-> nn + Len(p), ok |-> TRUE]

\* the WriteRaw call of data, whose bufio Write returned r, added to k.frames:
\* what it was given and returned, the free space it found in the buffer, and
\* the number of bytes of data that moved into the buffer or onto the wire
Recorded(k, data, r) ==
    [k |-> [r.k EXCEPT !.frames =
               Append(@, [data |-> data, n |-> r.nn, ok |-> r.ok,
                          free |-> BufSize - Len(k.buf),
                          moved |-> (Len(r.k.buf) + Len(r.k.wire))
                                    - (Len(k.buf) + Len(k.wire))])],
     n |-> r.nn, ok |-> r.ok]

\* Escpos.WriteRaw(data): [k, n, ok]
WriteRaw(k, data) ==
    IF Len(data) > 0
    THEN Recorded(k, data, BufioWrite(k, data, 0))
    ELSE [k |-> k, n |-> 0, ok |-> TRUE]

\* WriteRaw of the data of each step in order, a call returning at the first
\* error with that step's message: [k, n, failed, err], n the count of the
\* last WriteRaw made, failed the index of the step that failed (0: none)
RECURSIVE WriteFrames(_, _, _, _)
RECURSIVE WriteFramesAfter(_, _, _)
WriteFrames(k, steps, i, n) ==
    IF i > Len(steps) THEN [k |-> k, n |-> n, failed |-> 0, err |-> ""]
    ELSE WriteFramesAfter(WriteRaw(k, steps[i].data), steps, i)

WriteFramesAfter(r, steps, i) ==
    IF r.ok THEN WriteFrames(r.k, steps, i + 1, r.n)
    ELSE [k |-> r.k, n |-> r.n, failed |-> i, err |-> steps[i].err]

Commit(k) ==
    /\ buf' = k.buf
    /\ berr' = k.berr
    /\ wire' = k.wire
    /\ calls' = k.calls
    /\ frames' = k.frames

----------------------------------------------------------------------------
(* The session.  The outcome of a call is a record o: the sink o.k it      *)
(* leaves, the count o.n, error o.err ("" for nil) and value o.val it      *)
(* returns, and the style o.style it leaves.                               *)

\* The networkPrinter before NewNetworkPrinter: conn is "nil", "open" or
\* "closed"; the four durations are the struct's fields; readDeadline and
\* writeDeadline are the deadlines of the connection, 0 for none; now is the
\* clock; op, arg, n and err are the last call on the printer and its result.
NoPrinter ==
    [conn |-> "nil", timeout |-> 0, readTimeout |-> 0, writeTimeout |-> 0,
     connectTimeout |-> 0, readDeadline |-> 0, writeDeadline |-> 0, now |-> 1,
     op |-> "none", arg |-> <<>>, n |-> 0, err |-> ""]

DefaultStyleValue ==
    [Bold |-> FALSE, Width |-> 1, Height |-> 1, Reverse |-> FALSE,
     Underline |-> 0, UpsideDown |-> FALSE, Rotate |-> FALSE,
     Justify |-> JustifyLeft]

NoConfig ==
    [DisableUnderline |-> FALSE, DisableBold |-> FALSE, DisableReverse |-> FALSE,
     DisableRotate |-> FALSE, DisableUpsideDown |-> FALSE, DisableJustify |-> FALSE]

\* New(printer): the default style, no feature disabled, an empty buffer
Init ==
    /\ Style = DefaultStyleValue
    /\ config = NoConfig
    /\ buf = <<>>
    /\ berr = FALSE
    /\ wire = <<>>
    /\ tx = "ok"
    /\ np = NoPrinter
    /\ ret = [op |-> "New", arg |-> <<>>, n |-> 0, err |-> "", val |-> <<>>]
    /\ frames = <<>>
    /\ calls = <<>>
    /\ ops = 0

Outcome(k, n, err, val, style) ==
    [k |-> k, n |-> n, err |-> err, val |-> val, style |-> style]

\* the call op(arg) with outcome o has been made
Finish(op, arg, o) ==
    /\ ops < MaxOps
    /\ Commit(o.k)
    /\ Style' = o.style
    /\ ret' = [op |-> op, arg |-> arg, n |-> o.n, err |-> o.err, val |-> o.val]
    /\ ops' = ops + 1
    /\ UNCHANGED <<tx, np>>

Call(op, arg, o) ==
    /\ Finish(op, arg, o)
    /\ UNCHANGED config

\* a call that touches neither the sink nor the style
Silent(n, err) == Outcome(Sink0, n, err, <<>>, Style)

\* a return that drops the count of WriteRaw
RawUncounted(r, st) == Outcome(r.k, 0, IF r.ok THEN "" ELSE "write error", <<>>, st)

\* return e.WriteRaw(...), r what WriteRaw returned, st the style left
Raw(r, st) == Outcome(r.k, r.n, IF r.ok THEN "" ELSE "write error", <<>>, st)

\* a call that is return e.WriteRaw(frame)
Emit(op, arg, frame) == Call(op, arg, Raw(WriteRaw(Sink0, frame), Style))

\* if err := e.dst.Flush(); err != nil { return wrapped error }, k the sink
\* after the Flush
Flushed(k, st, msg) == Outcome(k, 0, IF k.berr THEN msg ELSE "", <<>>, st)

SetConfig(conf) ==
    /\ Finish("SetConfig", conf, Silent(0, ""))
    /\ config' = conf

\* Escpos.Print
PrintFlush ==
    Call("Print", <<>>, Flushed(Flush(Sink0), Style, "failed to send data to printer"))

\* a PrintAndCut that queues the cut and does not flush
PrintAndCutAfterUnflushed(c, st) ==
    IF ~c.ok THEN Outcome(c.k, 0, "failed to perform cut", <<>>, st)
    ELSE Flushed(c.k, st, "failed to send data to printer")

\* PrintAndCut after its e.Cut() returned c
PrintAndCutAfter(c, st) ==
    IF ~c.ok THEN Outcome(c.k, 0, "failed to perform cut", <<>>, st)
    ELSE Flushed(Flush(c.k), st, "failed to send data to printer")

PrintAndCut ==
    Call("PrintAndCut", <<>>,
         PrintAndCutAfter(WriteRaw(Sink0, <<gs, 86, 65, 0>>), Style))

\* Escpos.WriteRaw as a call of its own
WriteRawCall(data) == Emit("WriteRaw", data, data)

\* the chained style setters: the style is stored, no byte is queued
SetStyle(op, arg, st) == Call(op, arg, Outcome(Sink0, 0, "", <<>>, st))

DefaultStyle == SetStyle("DefaultStyle", <<>>, DefaultStyleValue)

Bold(p) == SetStyle("Bold", p, [Style EXCEPT !.Bold = p])

UnderlineValue(p) == IF p > 2 THEN 2 ELSE p

Underline(p) == SetStyle("Underline", p, [Style EXCEPT !.Underline = UnderlineValue(p)])

Reverse(p) == SetStyle("Reverse", p, [Style EXCEPT !.Reverse = p])

\* a justification stored as it is given
JustifyValueKept(p) == p

JustifyValue(p) == IF p > JustifyRight THEN JustifyLeft ELSE p

Justify(p) == SetStyle("Justify", p, [Style EXCEPT !.Justify = JustifyValue(p)])

Rotate(p) == SetStyle("Rotate", p, [Style EXCEPT !.Rotate = p])

UpsideDown(p) == SetStyle("UpsideDown", p, [Style EXCEPT !.UpsideDown = p])

\* a clamp without the lower bound
ClampSizeAbove(x) == IF x > 8 THEN 8 ELSE x

\* the clamp of Size and SetSize
ClampSize(x) == IF x < 1 THEN 1 ELSE IF x > 8 THEN 8 ELSE x

Size(width, height) ==
    SetStyle("Size", <<width, height>>,
             [Style EXCEPT !.Width = ClampSize(width), !.Height = ClampSize(height)])

\* sizeByte := (2<<3)*(width-1) + (height - 1), in uint8 arithmetic
SizeByte(height, width) == (16 * (width - 1) + (height - 1)) % 256

\* the command SetSize(height, width) sends
SizeFrame(height, width) ==
    <<gs, 33, SizeByte(ClampSize(height), ClampSize(width))>>

\* the style SetSize(height, width) leaves
SizeStyle(st, height, width) ==
    [st EXCEPT !.Height = ClampSize(height), !.Width = ClampSize(width)]

SetSize(height, width) ==
    Call("SetSize", <<height, width>>,
         Raw(WriteRaw(Sink0, SizeFrame(height, width)),
             SizeStyle(Style, height, width)))

SetAlign(j) ==
    Call("SetAlign", j,
         Raw(WriteRaw(Sink0, <<esc, 97, JustifyValue(j)>>),
             [Style EXCEPT !.Justify = JustifyValue(j)]))

SetBold(b) == Emit("SetBold", b, <<esc, 69, boolToByte(b)>>)

Cut == Emit("Cut", <<>>, <<gs, 86, 65, 0>>)

PartialCut == Emit("PartialCut", <<>>, <<gs, 86, 66, 0>>)

FontValue(f) == IF f > FontB THEN FontA ELSE f

SetFont(f) == Emit("SetFont", f, <<esc, 77, FontValue(f)>>)

\* an HRIPosition that clamps its argument
HRIPositionClamped(p) ==
    Emit("HRIPosition", p, <<gs, 72, IF p > HRIPositionBoth THEN HRIPositionBoth ELSE p>>)

HRIPosition(p) ==
    Call("HRIPosition", p,
         IF p > HRIPositionBoth
         THEN Silent(0, "invalid HRI position: must be between 0-3")
         ELSE Raw(WriteRaw(Sink0, <<gs, 72, p>>), Style))

HRIFont(p) == Emit("HRIFont", p, <<gs, 102, boolToByte(p)>>)

BarcodeHeight(p) == Emit("BarcodeHeight", p, <<gs, 104, p>>)

\* a barcode width capped at 6 only
BarcodeWidthValueCapped(p) == IF p > 6 THEN 6 ELSE p

BarcodeWidthValue(p) == IF p < 2 THEN 2 ELSE IF p > 6 THEN 6 ELSE p

BarcodeWidth(p) == Emit("BarcodeWidth", p, <<gs, 119, BarcodeWidthValue(p)>>)

DefaultLineSpacing == Emit("DefaultLineSpacing", <<>>, <<esc, 50>>)

LineSpacing(p) == Emit("LineSpacing", p, <<esc, 51, p>>)

Initialize == Emit("Initialize", <<>>, <<esc, 64>>)

MotionUnits(x, y) == Emit("MotionUnits", <<x, y>>, <<gs, 80, x, y>>)

\* a drawer pin passed on as it is
DrawerPinKept(pin) == pin

DrawerPin(pin) == IF pin > 1 THEN 0 ELSE pin

DrawerTime(time) == IF time < 1 THEN 1 ELSE IF time > 8 THEN 8 ELSE time

OpenDrawer(pin, time) ==
    Emit("OpenDrawer", <<pin, time>>,
         <<esc, 112, DrawerPin(pin), DrawerTime(time), DrawerTime(time)>>)

\* An image is a record [w, h, px]: its width and height in pixels (w a
\* multiple of 8) and the luminance 0..255 of its pixels, row after row.

\* the byte of the 8 pixels of px from position i on, most significant bit
\* first, a pixel darker than the cutoff being a set bit
RECURSIVE PackByte(_, _, _)
PackByte(px, i, n) ==
    IF n = 0 THEN 0
    ELSE (IF px[i] < 128 THEN 2 ^ (n - 1) ELSE 0) + PackByte(px, i + 1, n - 1)

\* the packed bits of an image
PackBits(image) ==
    [b \in 1..((image.w \div 8) * image.h) |-> PackByte(image.px, 8 * (b - 1) + 1, 8)]

\* printImage(image): the width in bytes and the height, each as low and high
\* byte, and the packed bits
printImage(image) ==
    [xL |-> (image.w \div 8) % 256, xH |-> (image.w \div 8) \div 256,
     yL |-> image.h % 256, yH |-> image.h \div 256,
     data |-> PackBits(image)]

\* the density byte: bit 0 is clear for high density horizontal, bit 1 for
\* high density vertical
Density(highDensityVertical, highDensityHorizontal) ==
    (IF highDensityHorizontal THEN 0 ELSE 1) + (IF highDensityVertical THEN 0 ELSE 2)

\* PrepareImageForPrinting(image, highDensityVertical, highDensityHorizontal):
\* the framed raster of the dithered image, or an error for an empty image
PrepareImageForPrinting(image, highDensityVertical, highDensityHorizontal) ==
    IF image.w = 0 \/ image.h = 0 THEN [ok |-> FALSE, data |-> <<>>]
    ELSE [ok |-> TRUE,
          data |-> <<gs, 118, 48, Density(highDensityVertical, highDensityHorizontal),
                     (image.w \div 8) % 256, (image.w \div 8) \div 256,
                     image.h % 256, image.h \div 256>> \o PackBits(image)]

\* the dither case of PrintImageWithProcessing, d what the preparation returned
PrintDithered(d, st) ==
    IF ~d.ok THEN Outcome(Sink0, 0, "failed to transform dithered image", <<>>, st)
    ELSE Raw(WriteRaw(Sink0, d.data), st)

\* the threshold case, t what printImage returned
PrintThreshold(t, st) ==
    Raw(WriteRaw(Sink0, <<gs, 118, 48, 0, t.xL, t.xH, t.yL, t.yH>> \o t.data), st)

PrintImageWithProcessing(image, processMethod, highDensityVertical, highDensityHorizontal) ==
    Call("PrintImageWithProcessing",
         <<image, processMethod, highDensityVertical, highDensityHorizontal>>,
         IF processMethod = ImageProcessDither
         THEN PrintDithered(PrepareImageForPrinting(image, highDensityVertical,
                                                    highDensityHorizontal), Style)
         ELSE IF processMethod = ImageProcessThreshold
         THEN PrintThreshold(printImage(image), Style)
         ELSE Silent(0, "unknown image processing method"))

\* the style commands of every feature, disabled or not
WriteStyleStepsAll(conf, st) ==
    << [err |-> "failed to set bold style", data |-> <<esc, 69, boolToByte(st.Bold)>>],
       [err |-> "failed to set underline style", data |-> <<esc, 45, st.Underline>>],
       [err |-> "failed to set reverse style", data |-> <<gs, 66, boolToByte(st.Reverse)>>],
       [err |-> "failed to set rotate style", data |-> <<esc, 86, boolToByte(st.Rotate)>>],
       [err |-> "failed to set upside-down style",
        data |-> <<esc, 123, boolToByte(st.UpsideDown)>>],
       [err |-> "failed to set justification", data |-> <<esc, 97, st.Justify>>] >>

\* the style commands Write queues before the size command, in order, each
\* with the error Write returns when its WriteRaw fails
WriteStyleSteps(conf, st) ==
    LET all == <<
          [on |-> ~conf.DisableBold, err |-> "failed to set bold style",
           data |-> <<esc, 69, boolToByte(st.Bold)>>],
          [on |-> ~conf.DisableUnderline, err |-> "failed to set underline style",
           data |-> <<esc, 45, st.Underline>>],
          [on |-> ~conf.DisableReverse, err |-> "failed to set reverse style",
           data |-> <<gs, 66, boolToByte(st.Reverse)>>],
          [on |-> ~conf.DisableRotate, err |-> "failed to set rotate style",
           data |-> <<esc, 86, boolToByte(st.Rotate)>>],
          [on |-> ~conf.DisableUpsideDown, err |-> "failed to set upside-down style",
           data |-> <<esc, 123, boolToByte(st.UpsideDown)>>],
          [on |-> ~conf.DisableJustify, err |-> "failed to set justification",
           data |-> <<esc, 97, st.Justify>>] >>
        IsOn(x) == x.on
    IN SelectSeq(all, IsOn)

\* every WriteRaw of Write(data) in order: the style commands, the command of
\* e.SetSize(e.Style.Height, e.Style.Width), the text
WriteSteps(conf, st, data) ==
    WriteStyleSteps(conf, st)
    \o << [err |-> "failed to set text size", data |-> SizeFrame(st.Height, st.Width)],
          [err |-> "failed to write text data", data |-> data] >>

\* a Write that leaves the default style
WriteAfterReset(r, nsteps, st) ==
    Outcome(r.k, IF r.failed = 0 THEN r.n ELSE 0, r.err, <<>>, DefaultStyleValue)

\* Write after its WriteRaw calls returned r: a failed WriteRaw ends the call
\* with count 0; SetSize has stored its clamped values once it is reached
WriteAfter(r, nsteps, st) ==
    Outcome(r.k, IF r.failed = 0 THEN r.n ELSE 0, r.err, <<>>,
            IF r.failed \in 1..(nsteps - 2) THEN st
            ELSE SizeStyle(st, st.Height, st.Width))

\* Escpos.Write(data) with its steps
WriteOn(k, st, steps) == WriteAfter(WriteFrames(k, steps, 1, 0), Len(steps), st)

Write(data) ==
    Call("Write", data, WriteOn(Sink0, Style, WriteSteps(config, Style, data)))

\* a digit test that lets ':' through
onlyDigitsAndColon(s) == \A i \in 1..Len(s): s[i] >= 48 /\ s[i] <= 58

onlyDigits(s) == \A i \in 1..Len(s): s[i] >= 48 /\ s[i] <= 57

\* onlyDigits(s) called on its own
onlyDigitsCall(s) ==
    /\ ops = 0
    /\ Call("onlyDigits", s, Outcome(Sink0, 0, "", onlyDigits(s), Style))

\* a validation that looks at the characters before the length
BarcodeErrorCharsetFirst(barcodeType, code) ==
    IF barcodeType > BarcodeCodabar THEN "invalid barcode type"
    ELSE IF barcodeType \in {BarcodeUPCA, BarcodeUPCE}
    THEN IF ~onlyDigits(code) THEN "UPC code can only contain digits"
         ELSE IF Len(code) # 11 /\ Len(code) # 12
         THEN "UPC code should have 11 or 12 digits" ELSE ""
    ELSE IF barcodeType = BarcodeEAN13
    THEN IF ~onlyDigits(code) THEN "EAN-13 code can only contain digits"
         ELSE IF Len(code) # 12 /\ Len(code) # 13
         THEN "EAN-13 code should have 12 or 13 digits" ELSE ""
    ELSE IF barcodeType = BarcodeEAN8
    THEN IF ~onlyDigits(code) THEN "EAN-8 code can only contain digits"
         ELSE IF Len(code) # 7 /\ Len(code) # 8
         THEN "EAN-8 code should have 7 or 8 digits" ELSE ""
    ELSE IF barcodeType = BarcodeITF
    THEN IF ~onlyDigits(code) THEN "ITF code can only contain digits"
         ELSE IF Len(code) < 2 \/ Len(code) % 2 # 0
         THEN "ITF code must have an even number of digits (at least 2)" ELSE ""
    ELSE ""

\* the error of Barcode's validation, "" when the code is accepted
BarcodeError(barcodeType, code) ==
    IF barcodeType > BarcodeCodabar THEN "invalid barcode type"
    ELSE IF barcodeType \in {BarcodeUPCA, BarcodeUPCE}
    THEN IF Len(code) # 11 /\ Len(code) # 12
         THEN "UPC code should have 11 or 12 digits"
         ELSE IF ~onlyDigits(code) THEN "UPC code can only contain digits" ELSE ""
    ELSE IF barcodeType = BarcodeEAN13
    THEN IF Len(code) # 12 /\ Len(code) # 13
         THEN "EAN-13 code should have 12 or 13 digits"
         ELSE IF ~onlyDigits(code) THEN "EAN-13 code can only contain digits" ELSE ""
    ELSE IF barcodeType = BarcodeEAN8
    THEN IF Len(code) # 7 /\ Len(code) # 8
         THEN "EAN-8 code should have 7 or 8 digits"
         ELSE IF ~onlyDigits(code) THEN "EAN-8 code can only contain digits" ELSE ""
    ELSE IF barcodeType = BarcodeITF
    THEN IF Len(code) < 2 \/ Len(code) % 2 # 0
         THEN "ITF code must have an even number of digits (at least 2)"
         ELSE IF ~onlyDigits(code) THEN "ITF code can only contain digits" ELSE ""
    ELSE ""

\* Barcode after its validation returned e
BarcodeAfter(e, barcodeType, code) ==
    IF e # "" THEN Silent(0, e)
    ELSE Raw(WriteRaw(Sink0, <<gs, 107, barcodeType>> \o code \o <<0>>), Style)

Barcode(barcodeType, code) ==
    Call("Barcode", <<barcodeType, code>>,
         BarcodeAfter(BarcodeError(barcodeType, code), barcodeType, code))

\* one capacity for every model
QRMaxLengthOfModel2(model) == 7089

\* the capacity QRCode checks the payload against
QRMaxLength(model) == IF model = QRCodeModel1 THEN 1167 ELSE 7089

QRSize(size) == IF size < 1 THEN 1 ELSE IF size > 16 THEN 16 ELSE size

\* a correction level passed on as it is
QRLevelKept(correctionLevel) == correctionLevel

QRLevel(correctionLevel) ==
    IF correctionLevel < QRCodeErrorCorrectionLevelL
         \/ correctionLevel > QRCodeErrorCorrectionLevelH
    THEN QRCodeErrorCorrectionLevelL ELSE correctionLevel

QRModel(model) ==
    IF model # QRCodeModel1 /\ model # QRCodeModel2 THEN QRCodeModel2 ELSE model

\* a high length byte that counts the payload only
QRpHOfPayload(code) == (Len(code) \div 256) % 256

\* the two length bytes of the store-data frame
QRpH(code) == ((Len(code) + 3) \div 256) % 256
QRpL(code) == ((Len(code) + 3) % 256) % 256

\* the print command sent before the data is stored
QRStepsPrintFirst(code, model, size, correctionLevel) ==
    << [err |-> "failed to set QR code model",
        data |-> <<gs, 40, 107, 4, 0, 49, 65, QRModel(model), 0>>],
       [err |-> "failed to set QR code size",
        data |-> <<gs, 40, 107, 3, 0, 49, 67, QRSize(size)>>],
       [err |-> "failed to set QR code error correction level",
        data |-> <<gs, 40, 107, 3, 0, 49, 69, QRLevel(correctionLevel)>>],
       [err |-> "failed to print QR code",
        data |-> <<gs, 40, 107, 3, 0, 49, 81, 48>>],
       [err |-> "failed to store QR code data",
        data |-> <<gs, 40, 107, QRpL(code), QRpH(code), 49, 80, 48>> \o code] >>

\* the five WriteRaw calls of QRCode with the error each failure is wrapped in
QRSteps(code, model, size, correctionLevel) ==
    << [err |-> "failed to set QR code model",
        data |-> <<gs, 40, 107, 4, 0, 49, 65, QRModel(model), 0>>],
       [err |-> "failed to set QR code size",
        data |-> <<gs, 40, 107, 3, 0, 49, 67, QRSize(size)>>],
       [err |-> "failed to set QR code error correction level",
        data |-> <<gs, 40, 107, 3, 0, 49, 69, QRLevel(correctionLevel)>>],
       [err |-> "failed to store QR code data",
        data |-> <<gs, 40, 107, QRpL(code), QRpH(code), 49, 80, 48>> \o code],
       [err |-> "failed to print QR code",
        data |-> <<gs, 40, 107, 3, 0, 49, 81, 48>>] >>

\* a QRCode that returns the count of its last WriteRaw
QRCodeAfterLast(r, st) == Outcome(r.k, r.n, r.err, <<>>, st)

\* QRCode after its WriteRaw calls returned r: written is the count of the
\* store-data WriteRaw, 0 when that one was not reached
QRCodeAfter(r, st) ==
    Outcome(r.k, IF r.failed \in {1, 2, 3} THEN 0 ELSE r.k.frames[4].n,
            r.err, <<>>, st)

QRCode(code, model, size, correctionLevel) ==
    Call("QRCode", <<code, model, size, correctionLevel>>,
         IF Len(code) > QRMaxLength(model)
         THEN Silent(0, "QR code data too long")
         ELSE QRCodeAfter(
                  WriteFrames(Sink0, QRSteps(code, model, size, correctionLevel), 1, 0),
                  Style))

\* QueryStatus after its e.dst.Flush() left sink f
StatusFlushed(f) ==
    [k |-> f, err |-> IF f.berr THEN "failed to flush status request" ELSE ""]

\* a status request that is queued and not flushed
StatusSentUnflushed(w) ==
    IF ~w.ok THEN [k |-> w.k, err |-> "failed to send status request"]
    ELSE StatusFlushed(w.k)

\* QueryStatus up to its Flush, w what the WriteRaw of the request returned
StatusSent(w) ==
    IF ~w.ok THEN [k |-> w.k, err |-> "failed to send status request"]
    ELSE StatusFlushed(Flush(w.k))

\* a QueryStatus that takes a Read of zero bytes for an error
StatusReadStrict(s, resp, st) ==
    IF s.err # "" THEN Outcome(s.k, 0, s.err, <<>>, st)
    ELSE Outcome([s.k EXCEPT !.calls =
                     Append(@, [t |-> "Read", len |-> 1, n |-> resp.n, ok |-> resp.ok])],
                 0,
                 IF resp.ok /\ resp.n # 0 THEN "" ELSE "failed to read status response",
                 IF resp.ok /\ resp.n # 0 THEN <<resp.b>> ELSE <<>>,
                 st)

\* the rest of QueryStatus: after the delay, one e.reader.Read(buf) with a
\* 1-byte buf, which answers resp
StatusRead(s, resp, st) ==
    IF s.err # "" THEN Outcome(s.k, 0, s.err, <<>>, st)
    ELSE Outcome([s.k EXCEPT !.calls =
                     Append(@, [t |-> "Read", len |-> 1, n |-> resp.n, ok |-> resp.ok])],
                 0,
                 IF resp.ok THEN "" ELSE "failed to read status response",
                 IF resp.ok /\ resp.n # 0 THEN <<resp.b>> ELSE <<>>,
                 st)

\* Escpos.QueryStatus(statusType) on sink k
QueryStatusOn(k, statusType, resp, st) ==
    StatusRead(StatusSent(WriteRaw(k, <<dle, 4, statusType>>)), resp, st)

QueryStatus(statusType, resp) ==
    Call("QueryStatus", [statusType |-> statusType, resp |-> resp],
         QueryStatusOn(Sink0, statusType, resp, Style))

\* an IsOnline that reads bit 2 of the response
IsOnlineValueOfBit2(q) ==
    IF q.err # "" THEN FALSE
    ELSE IF Len(q.val) = 0 THEN FALSE
    ELSE BitAnd(q.val[1], 4) = 0

\* what IsOnline returns for the outcome q of its QueryStatus
IsOnlineValue(q) ==
    IF q.err # "" THEN FALSE
    ELSE IF Len(q.val) = 0 THEN FALSE
    ELSE BitAnd(q.val[1], RT_MASK_ONLINE) = 0

IsOnlineAfter(q) == [q EXCEPT !.val = IsOnlineValue(q)]

IsOnline(resp) ==
    Call("IsOnline", [resp |-> resp],
         IsOnlineAfter(QueryStatusOn(Sink0, RT_STATUS_ONLINE, resp, Style)))

\* what PaperStatus returns for the outcome q of its QueryStatus
PaperStatusValue(q) ==
    IF q.err # "" THEN 2
    ELSE IF Len(q.val) = 0 THEN 2
    ELSE IF BitAnd(q.val[1], RT_MASK_NOPAPER) = RT_MASK_NOPAPER THEN 0
    ELSE IF BitAnd(q.val[1], RT_MASK_LOWPAPER) = RT_MASK_LOWPAPER THEN 1
    ELSE IF BitAnd(q.val[1], RT_MASK_PAPER) = RT_MASK_PAPER THEN 2
    ELSE 0

PaperStatusAfter(q) == [q EXCEPT !.val = PaperStatusValue(q)]

PaperStatus(resp) ==
    Call("PaperStatus", [resp |-> resp],
         PaperStatusAfter(QueryStatusOn(Sink0, RT_STATUS_PAPER, resp, Style)))

\* the transport's Write starts to fail
TransportBreaks(mode) ==
    /\ tx = "ok"
    /\ tx' = mode
    /\ UNCHANGED <<Style, config, buf, berr, wire, np, ret, frames, calls, ops>>

----------------------------------------------------------------------------
(* The network transport *)

\* the options, each applied to the networkPrinter p
WithTimeout(d, p) == [p EXCEPT !.timeout = d]

WithConnectTimeout(d, p) == [p EXCEPT !.connectTimeout = d]

WithReadTimeout(d, p) == [p EXCEPT !.readTimeout = d]

WithWriteTimeout(d, p) == [p EXCEPT !.writeTimeout = d]

\* np.conn.SetDeadline(t): a method call on the nil interface panics
WithDeadline(t, p) ==
    IF p.conn = "nil" THEN [p EXCEPT !.err = "panic"]
    ELSE [p EXCEPT !.readDeadline = t, !.writeDeadline = t]

WithReadDeadline(t, p) ==
    IF p.conn = "nil" THEN [p EXCEPT !.err = "panic"]
    ELSE [p EXCEPT !.readDeadline = t]

WithWriteDeadline(t, p) ==
    IF p.conn = "nil" THEN [p EXCEPT !.err = "panic"]
    ELSE [p EXCEPT !.writeDeadline = t]

\* opt(np) for the option o, a record [opt, v]
ApplyOption(o, p) ==
    CASE o.opt = "WithTimeout" -> WithTimeout(o.v, p)
      [] o.opt = "WithConnectTimeout" -> WithConnectTimeout(o.v, p)
      [] o.opt = "WithReadTimeout" -> WithReadTimeout(o.v, p)
      [] o.opt = "WithWriteTimeout" -> WithWriteTimeout(o.v, p)
      [] o.opt = "WithDeadline" -> WithDeadline(o.v, p)
      [] o.opt = "WithReadDeadline" -> WithReadDeadline(o.v, p)
      [] o.opt = "WithWriteDeadline" -> WithWriteDeadline(o.v, p)

\* for _, opt := range opts { if err := opt(np); err != nil { return } }
RECURSIVE ApplyOptions(_, _)
ApplyOptions(opts, p) ==
    IF opts = <<>> \/ p.err # "" THEN p
    ELSE ApplyOptions(Tail(opts), ApplyOption(Head(opts), p))

\* the networkPrinter after the dial, p the one the options left
Dialed(p, reachable) ==
    IF p.err # "" THEN p
    ELSE IF ~reachable THEN [p EXCEPT !.err = "dial error"]
    ELSE [p EXCEPT !.conn = "open"]

NewNetworkPrinter(opts, reachable) ==
    /\ np.op = "none"
    /\ np' = [Dialed(ApplyOptions(opts, np), reachable)
                EXCEPT !.op = "NewNetworkPrinter", !.arg = <<opts, reachable>>]
    /\ UNCHANGED <<Style, config, buf, berr, wire, tx, ret, frames, calls, ops>>

\* a read or write of the connection under the deadline, the peer taking
\* took units of time: it ends at the deadline with a timeout when the peer
\* is not done before it
ConnIO(p, deadline, took) ==
    IF deadline # 0 /\ p.now + took >= deadline
    THEN [p EXCEPT !.now = IF deadline > p.now THEN deadline ELSE p.now,
                   !.n = 0, !.err = "i/o timeout"]
    ELSE [p EXCEPT !.now = p.now + took, !.n = 1, !.err = ""]

\* a read deadline taken from the general timeout before the read timeout
ReadDeadlineGeneralFirst(p) ==
    IF p.timeout > 0 THEN p.now + p.timeout
    ELSE IF p.readTimeout > 0 THEN p.now + p.readTimeout
    ELSE p.readDeadline

\* the read deadline of the connection after the first lines of Read
ReadDeadline(p) ==
    IF p.readTimeout > 0 THEN p.now + p.readTimeout
    ELSE IF p.timeout > 0 THEN p.now + p.timeout
    ELSE p.readDeadline

\* the write deadline of the connection after the first lines of Write
WriteDeadline(p) ==
    IF p.writeTimeout > 0 THEN p.now + p.writeTimeout
    ELSE IF p.timeout > 0 THEN p.now + p.timeout
    ELSE p.writeDeadline

\* a call on the printer has left it as p
NetDone(op, took, p) ==
    /\ p.now <= MaxTime
    /\ np' = [p EXCEPT !.op = op, !.arg = <<took>>]
    /\ UNCHANGED <<Style, config, buf, berr, wire, tx, ret, frames, calls, ops>>

\* networkPrinter.Read, the peer answering after took units of time
networkPrinterRead(took) ==
    /\ np.conn # "nil"
    /\ IF np.conn = "closed"
       THEN NetDone("Read", took, [np EXCEPT !.n = 0, !.err = "closed"])
       ELSE NetDone("Read", took,
                    ConnIO([np EXCEPT !.readDeadline = ReadDeadline(np)],
                           ReadDeadline(np), took))

\* networkPrinter.Write, the peer taking the bytes after took units of time
networkPrinterWrite(took) ==
    /\ np.conn # "nil"
    /\ IF np.conn = "closed"
       THEN NetDone("Write", took, [np EXCEPT !.n = 0, !.err = "closed"])
       ELSE NetDone("Write", took,
                    ConnIO([np EXCEPT !.writeDeadline = WriteDeadline(np)],
                           WriteDeadline(np), took))

\* networkPrinter.Close
networkPrinterClose ==
    /\ np.conn = "open"
    /\ NetDone("Close", 0, [np EXCEPT !.conn = "closed", !.n = 0, !.err = ""])

\* time passes between two calls
Sleep ==
    /\ np.op # "none"
    /\ NetDone("Sleep", 1, [np EXCEPT !.now = np.now + 1])

----------------------------------------------------------------------------
(* The calls a session receives, and their arguments *)

Disable(flags) ==
    [DisableUnderline |-> "underline" \in flags, DisableBold |-> "bold" \in flags,
     DisableReverse |-> "reverse" \in flags, DisableRotate |-> "rotate" \in flags,
     DisableUpsideDown |-> "upsideDown" \in flags,
     DisableJustify |-> "justify" \in flags]

Features == {"underline", "bold", "reverse", "rotate", "upsideDown", "justify"}

\* nothing disabled, one feature disabled, everything disabled
Configs == {Disable({}), Disable(Features)} \cup {Disable({f}): f \in Features}

\* "" and "Test"
Texts == {<<>>, <<84, 101, 115, 116>>}

\* nothing, and ESC @
RawData == {<<>>, <<esc, 64>>}

\* valid, bad character, bad length (EAN-13)
Barcodes ==
    { <<BarcodeEAN13, <<49, 50, 51, 52, 53, 54, 55, 56, 57, 48, 49, 50, 56>>>>,
      <<BarcodeEAN13, <<49, 50, 51, 52, 53, 88, 55, 56, 57, 48, 49, 50, 56>>>>,
      <<BarcodeEAN13, <<49, 50, 51, 52, 53, 54, 55, 56, 57>>>> }

\* a short payload, the longest payload of model 2, one byte more
QRInputs ==
    { <<Fill(4), QRCodeModel2, 5, 49>>,
      <<Fill(7089), QRCodeModel2, 5, 49>>,
      <<Fill(7090), QRCodeModel2, 5, 49>> }

SizeArgs == {<<2, 2>>, <<0, 9>>}

\* one row of eight pixels, four dark and four light; an image without pixel
Images ==
    {[w |-> 8, h |-> 1, px |-> <<0, 0, 0, 0, 255, 255, 255, 255>>],
     [w |-> 0, h |-> 0, px |-> <<>>]}

\* both images dithered, the first one by threshold and with a method that
\* is not known
ImageArgs ==
    {<<img, ImageProcessDither>>: img \in Images}
    \cup {<<CHOOSE img \in Images: img.w = 8, m>>: m \in {ImageProcessThreshold, 2}}

Reads == {NoResponse, ReadError, Response(12)}

AllReads == {NoResponse, ReadError} \cup {Response(b): b \in Byte}

Next ==
    \/ \E c \in Configs: SetConfig(c)
    \/ PrintFlush
    \/ PrintAndCut
    \/ Cut
    \/ PartialCut
    \/ \E d \in RawData: WriteRawCall(d)
    \/ \E d \in Texts: Write(d)
    \/ DefaultStyle
    \/ \E p \in BOOLEAN: Bold(p)
    \/ \E p \in {1, 3}: Underline(p)
    \/ \E p \in BOOLEAN: Reverse(p)
    \/ \E p \in {1, 3}: Justify(p)
    \/ \E p \in BOOLEAN: Rotate(p)
    \/ \E p \in BOOLEAN: UpsideDown(p)
    \/ \E a \in SizeArgs: Size(a[1], a[2])
    \/ \E a \in SizeArgs: SetSize(a[1], a[2])
    \/ \E j \in {1, 3}: SetAlign(j)
    \/ \E b \in BOOLEAN: SetBold(b)
    \/ OpenDrawer(2, 9)
    \/ \E a \in ImageArgs: PrintImageWithProcessing(a[1], a[2], FALSE, TRUE)
    \/ \E a \in Barcodes: Barcode(a[1], a[2])
    \/ \E a \in QRInputs: QRCode(a[1], a[2], a[3], a[4])
    \/ \E t \in {RT_STATUS_ONLINE, RT_STATUS_PAPER}, r \in Reads: QueryStatus(t, r)
    \/ \E r \in Reads: IsOnline(r)
    \/ \E r \in Reads: PaperStatus(r)
    \/ \E m \in {"fail", "partial"}: TransportBreaks(m)

Spec == Init /\ [][Next]_vars

\* every status response to the first status call of a session
NextStatus ==
    \/ \E r \in AllReads: ops = 0 /\ QueryStatus(RT_STATUS_ONLINE, r)
    \/ \E r \in AllReads: ops = 0 /\ QueryStatus(RT_STATUS_PAPER, r)
    \/ \E r \in AllReads: ops = 0 /\ IsOnline(r)
    \/ \E r \in AllReads: ops = 0 /\ PaperStatus(r)

SpecStatus == Init /\ [][NextStatus]_vars

\* every height and width to the first SetSize of a session
NextSize == ops = 0 /\ \E h \in Byte, w \in Byte: SetSize(h, w)

SpecSize == Init /\ [][NextSize]_vars

\* the durations and the absolute times an option is given
OptionValues == 0..2

Options ==
    [opt: {"WithTimeout", "WithConnectTimeout", "WithReadTimeout", "WithWriteTimeout",
           "WithDeadline", "WithReadDeadline", "WithWriteDeadline"},
     v: OptionValues]

\* the option lists of NewNetworkPrinter
OptionLists == {<<>>} \cup {<<o>>: o \in Options} \cup {<<o, q>>: o \in Options, q \in Options}

\* the time the peer takes
Waits == 0..MaxWait

\* the calls on a network printer
NextNet ==
    \/ \E opts \in OptionLists, reachable \in BOOLEAN: NewNetworkPrinter(opts, reachable)
    \/ \E took \in Waits: networkPrinterRead(took)
    \/ \E took \in Waits: networkPrinterWrite(took)
    \/ networkPrinterClose
    \/ Sleep

SpecNet == Init /\ [][NextNet]_vars

\* OpenDrawer as the first call of a session, with every pin and time
NextDrawer == ops = 0 /\ \E pin \in Byte, time \in Byte: OpenDrawer(pin, time)

SpecDrawer == Init /\ [][NextDrawer]_vars

\* what the buffer holds when a setter is called: ESC @, or 4095 bytes
Preloads == {<<esc, 64>>, Fill(4095)}

\* a setter is the first call of the session or follows the WriteRaw that
\* loads the buffer
Settable == ret.op \in {"New", "WriteRaw"}

\* the calls that send one command, with every argument
NextSetters ==
    \/ \E d \in Preloads: ret.op = "New" /\ WriteRawCall(d)
    \/ \E m \in {"fail", "partial"}: TransportBreaks(m)
    \/ \E b \in BOOLEAN: Settable /\ SetBold(b)
    \/ \E j \in 0..3: Settable /\ SetAlign(j)
    \/ \E a \in SizeArgs: Settable /\ SetSize(a[1], a[2])
    \/ \E f \in Byte: Settable /\ SetFont(f)
    \/ \E p \in Byte: Settable /\ HRIPosition(p)
    \/ \E p \in BOOLEAN: Settable /\ HRIFont(p)
    \/ \E p \in Byte: Settable /\ BarcodeHeight(p)
    \/ \E p \in Byte: Settable /\ BarcodeWidth(p)
    \/ Settable /\ DefaultLineSpacing
    \/ \E p \in Byte: Settable /\ LineSpacing(p)
    \/ Settable /\ Initialize
    \/ \E x \in {0, 1, 255}, y \in {0, 1, 255}: Settable /\ MotionUnits(x, y)

SpecSetters == Init /\ [][NextSetters]_vars

\* n digits, '0' and '9' in turn
Digits(n) == [i \in 1..n |-> IF i % 2 = 1 THEN 48 ELSE 57]

\* n digits with the character c at position i
WithChar(n, i, c) == [Digits(n) EXCEPT ![i] = c]

\* digit strings of every length, and the same with '/', ':' or 'A' as their
\* first or last character
Payloads ==
    {Digits(n): n \in 0..MaxCodeLen}
    \cup {WithChar(n, 1, c): n \in 1..MaxCodeLen, c \in {47, 58, 65}}
    \cup {WithChar(n, n, c): n \in 1..MaxCodeLen, c \in {47, 58, 65}}

\* the seven barcode types and two values above them
BarcodeTypes == 0..7 \cup {255}

\* every barcode type with every payload as the first call of a session
NextBarcode == ops = 0 /\ \E t \in BarcodeTypes, c \in Payloads: Barcode(t, c)

SpecBarcode == Init /\ [][NextBarcode]_vars

\* the payloads, and the longest digit string with '/' or ':' at each place
DigitInputs ==
    Payloads \cup {WithChar(MaxCodeLen, i, c): i \in 1..MaxCodeLen, c \in {47, 58}}

NextDigits == \E s \in DigitInputs: onlyDigitsCall(s)

SpecDigits == Init /\ [][NextDigits]_vars

\* payload lengths: 0..260, the lengths around each multiple of 256 of the
\* length field, and the lengths around the two capacities
QRLengths ==
    0..260
    \cup UNION {{256 * k - 4, 256 * k - 3, 256 * k - 2}: k \in 2..27}
    \cup {1166, 1167, 1168, 7088, 7089, 7090}

\* every length with both models; every model byte with a short payload and
\* with one above the capacity of model 1; the largest payloads with models
\* that are not known; every size byte; every correction level byte
QRArgs ==
    {<<Fill(n), m, 5, 49>>: n \in QRLengths, m \in {QRCodeModel1, QRCodeModel2}}
    \cup {<<Fill(n), m, 5, 49>>: n \in {4, 1168}, m \in Byte}
    \cup {<<Fill(n), m, 5, 49>>: n \in {7089, 7090}, m \in {0, 48, 51, 255}}
    \cup {<<Fill(4), QRCodeModel2, z, 49>>: z \in Byte}
    \cup {<<Fill(4), QRCodeModel2, 5, l>>: l \in Byte}
    \cup {<<Fill(4), x, x, x>>: x \in {0, 255}}

\* QRCode with each of these arguments as the first call of a session
NextQR == ops = 0 /\ \E a \in QRArgs: QRCode(a[1], a[2], a[3], a[4])

SpecQR == Init /\ [][NextQR]_vars

----------------------------------------------------------------------------
(* Properties *)

\* the calls that flush the output buffer themselves
FlushingOps == {"Print", "PrintAndCut", "QueryStatus", "IsOnline", "PaperStatus"}

StatusOps == {"QueryStatus", "IsOnline", "PaperStatus"}

\* bit i of byte b is set
BitSet(b, i) == (b \div (2 ^ i)) % 2 = 1

\* the last call asked the transport to Read, and Read answered resp
ReadAnswered(resp) ==
    /\ calls # <<>>
    /\ calls[Len(calls)] = [t |-> "Read", len |-> 1, n |-> resp.n, ok |-> resp.ok]
    /\ ret.arg.resp = resp

\* C1: once SetConfig has set the flag of a feature, the setter of that
\* feature returns an error and queues no byte, whatever its argument (the
\* setter of the source that sends a feature's command: SetBold).
C1_DisabledSetterFails ==
    (ret.op = "SetBold" /\ config.DisableBold)
    => (ret.err # "" /\ frames = <<>> /\ buf = <<>>)

\* C2: the first call of a session being Write(text), it returns len(text)
\* and no error, and a Print that follows it without error leaves exactly the
\* bytes of text on the wire.
C2_FreshWriteSendsOnlyText ==
    [][ (/\ ops = 1 /\ ret.op = "Write"
         /\ ops' = 2 /\ ret'.op = "Print" /\ ret'.err = "")
        => (ret.n = Len(ret.arg) /\ ret.err = "" /\ wire' = ret.arg) ]_vars

\* C3: for a one-byte response b PaperStatus returns 0 when bits 5 and 6 are
\* both set, otherwise 1 when bits 2 and 3 are both set, otherwise 2.
C3_PaperStatusMasks ==
    (ret.op = "PaperStatus" /\ ret.err = "" /\ ret.arg.resp.n = 1)
    => LET b == ret.arg.resp.b IN
       ret.val = IF BitSet(b, 5) /\ BitSet(b, 6) THEN 0
                 ELSE IF BitSet(b, 2) /\ BitSet(b, 3) THEN 1
                 ELSE 2

\* C4: when the transport's Read returns zero bytes and no error, QueryStatus
\* returns an empty result, IsOnline false and PaperStatus 2, each without error.
C4_NoResponseDefaults ==
    (ret.op \in StatusOps /\ ReadAnswered(NoResponse))
    => /\ ret.err = ""
       /\ ret.op = "QueryStatus" => ret.val = <<>>
       /\ ret.op = "IsOnline" => ret.val = FALSE
       /\ ret.op = "PaperStatus" => ret.val = 2

C4_Witness ==
    /\ ret.op = "PaperStatus"
    /\ ReadAnswered(NoResponse)
    /\ ret.val = 2

\* C5: for a one-byte response b IsOnline returns true exactly when bit 3
\* (mask 0x08) of b is clear.
C5_IsOnlineBit3 ==
    (ret.op = "IsOnline" /\ ret.err = "" /\ ret.arg.resp.n = 1)
    => (ret.val <=> ~BitSet(ret.arg.resp.b, 3))

C5_Witness ==
    /\ ret.op = "IsOnline"
    /\ ReadAnswered(Response(247))
    /\ ret.val = TRUE

\* the bytes the WriteRaw calls fs were given
RECURSIVE FrameBytes(_)
FrameBytes(fs) == IF fs = <<>> THEN 0 ELSE Len(Head(fs).data) + FrameBytes(Tail(fs))

\* C6 as stated: a call other than Print, PrintAndCut and the status calls
\* leaves the wire as it is.
C6_NoByteBeforeFlush ==
    [][ (ops' = ops + 1 /\ ret'.op \notin FlushingOps) => wire' = wire ]_vars

\* C6, amended: a call other than Print, PrintAndCut and the status calls
\* makes no transport call and leaves the wire as it is when the bytes it
\* queues fit in the free space of the output buffer.
C6_NoByteWhileBufferFits ==
    [][ (/\ ops' = ops + 1
         /\ ret'.op \notin FlushingOps
         /\ Len(buf) + FrameBytes(frames') <= BufSize)
        => (wire' = wire /\ calls' = <<>>) ]_vars

C6_Witness ==
    /\ ops = 2
    /\ ret.op = "QRCode" /\ ret.err = ""
    /\ Len(buf) > FrameBytes(frames)
    /\ wire = <<>>

\* the request of a status call
StatusRequest(r) ==
    <<dle, 4, CASE r.op = "QueryStatus" -> r.arg.statusType
                [] r.op = "IsOnline" -> RT_STATUS_ONLINE
                [] r.op = "PaperStatus" -> RT_STATUS_PAPER>>

\* C7: a status call whose write and flush succeed queues its 3-byte request
\* once, puts the whole buffer and the request on the wire, and then calls
\* Read once, with a 1-byte buffer, as its last transport call.
C7_QueryStatusOrder ==
    [][ (/\ ops' = ops + 1
         /\ ret'.op \in StatusOps
         /\ ret'.err \notin {"failed to send status request",
                             "failed to flush status request"})
        => /\ Len(frames') = 1
           /\ frames'[1].data = StatusRequest(ret') /\ frames'[1].n = 3
           /\ wire' = wire \o buf \o StatusRequest(ret')
           /\ buf' = <<>>
           /\ calls' # <<>>
           /\ \A i \in 1..Len(calls'):
                 IF i = Len(calls')
                 THEN calls'[i].t = "Read" /\ calls'[i].len = 1
                 ELSE calls'[i].t = "Write" /\ calls'[i].ok ]_vars

C7_Witness ==
    /\ ret.op = "QueryStatus"
    /\ ret.err = "failed to read status response"
    /\ Len(calls) = 2 /\ calls[1].t = "Write" /\ calls[2].t = "Read"
    /\ buf = <<>>

C9_SetSizeClamps ==
    ret.op = "SetSize"
    => LET h == IF ret.arg[1] = 0 THEN 1 ELSE IF ret.arg[1] > 8 THEN 8 ELSE ret.arg[1]
           w == IF ret.arg[2] = 0 THEN 1 ELSE IF ret.arg[2] > 8 THEN 8 ELSE ret.arg[2]
           s == 16 * (w - 1) + (h - 1) IN
       /\ Style.Height = h /\ Style.Width = w
       /\ s \in 0..119
       /\ Len(frames) = 1 /\ frames[1].data = <<gs, 33, s>>
       /\ ret.err = "" => (ret.n = 3 /\ frames[1].n = 3)

C9_Witness ==
    /\ ret.op = "SetSize" /\ ret.arg = <<0, 9>>
    /\ Style.Height = 1 /\ Style.Width = 8
    /\ buf = <<gs, 33, 112>>

\* C10: the underline command that follows a request for underline u carries
\* 0 when u is in 3..255 and u when u is in 0..2 (here: the command of the
\* Write that follows Underline(u)).
C10_InvalidUnderlineResets ==
    [][ (/\ ret.op = "Underline"
         /\ ops' = ops + 1 /\ ret'.op = "Write" /\ ret'.err = ""
         /\ ~config.DisableUnderline)
        => \E i \in 1..Len(frames'):
              frames'[i].data = <<esc, 45, IF ret.arg > 2 THEN 0 ELSE ret.arg>> ]_vars

AllDigits(code) == \A i \in 1..Len(code): code[i] \in 48..57

\* the length rule and the character rule of barcode type t
LengthRule(t, code) ==
    CASE t \in {0, 1} -> Len(code) \in {11, 12}
      [] t = 2 -> Len(code) \in {12, 13}
      [] t = 3 -> Len(code) \in {7, 8}
      [] t = 5 -> Len(code) >= 2 /\ Len(code) % 2 = 0
      [] OTHER -> TRUE

CharsetRule(t, code) == t \in {0, 1, 2, 3, 5} => AllDigits(code)

LengthErrors ==
    {"UPC code should have 11 or 12 digits", "EAN-13 code should have 12 or 13 digits",
     "EAN-8 code should have 7 or 8 digits",
     "ITF code must have an even number of digits (at least 2)"}

CharsetErrors ==
    {"UPC code can only contain digits", "EAN-13 code can only contain digits",
     "EAN-8 code can only contain digits", "ITF code can only contain digits"}

\* C12: Barcode(t, payload), t in 0..6, as the first call of a session
\* succeeds exactly when the payload meets the length and character rule of
\* t; it then queues {GS, 'k', t} + payload + {0}, and queues nothing when
\* it fails.
C12_BarcodeRules ==
    (ret.op = "Barcode" /\ ret.arg[1] <= 6)
    => LET t == ret.arg[1]
           code == ret.arg[2] IN
       IF LengthRule(t, code) /\ CharsetRule(t, code)
       THEN /\ ret.err = "" /\ ret.n = Len(code) + 4
            /\ buf = <<gs, 107, t>> \o code \o <<0>>
            /\ Len(frames) = 1 /\ frames[1].data = buf
       ELSE /\ ret.err # "" /\ ret.n = 0
            /\ buf = <<>> /\ frames = <<>>

C12_Witness ==
    /\ ret.op = "Barcode" /\ ret.arg = <<BarcodeCode39, <<>>>>
    /\ ret.err = ""
    /\ buf = <<gs, 107, 4, 0>>

\* C13: Barcode reports the first violated rule in the order type, length,
\* character set: a type above 6 gives the type error whatever the payload,
\* a wrong length the length error also when a character is no digit, and a
\* character error is given only to a payload of the right length; the
\* length errors and the character errors are different messages.
C13_BarcodeErrorOrder ==
    /\ LengthErrors \cap CharsetErrors = {}
    /\ ret.op = "Barcode"
       => LET t == ret.arg[1]
              code == ret.arg[2] IN
          /\ t > 6 => ret.err = "invalid barcode type"
          /\ (t <= 6 /\ ~LengthRule(t, code)) => ret.err \in LengthErrors
          /\ (t <= 6 /\ LengthRule(t, code) /\ ~CharsetRule(t, code))
             => ret.err \in CharsetErrors
          /\ ret.err # "" => (frames = <<>> /\ buf = <<>>)

C13_Witness ==
    /\ ret.op = "Barcode" /\ ret.arg = <<BarcodeEAN13, WithChar(9, 1, 65)>>
    /\ ret.err = "EAN-13 code should have 12 or 13 digits"

\* C14: QRCode fails and queues no byte when the payload is longer than 1167
\* (model QRCodeModel1) or 7089 (every other model byte); a payload up to that
\* length is accepted and stored in full.
C14_QRCodeCapacity ==
    ret.op = "QRCode"
    => LET code == ret.arg[1]
           ceiling == IF ret.arg[2] = 49 THEN 1167 ELSE 7089 IN
       IF Len(code) > ceiling
       THEN /\ ret.err # "" /\ ret.n = 0
            /\ frames = <<>> /\ buf = <<>> /\ wire = <<>>
       ELSE /\ ret.err = ""
            /\ Len(frames) = 5
            /\ Drop(frames[4].data, 8) = code

C14_Witness ==
    /\ ret.op = "QRCode"
    /\ ret.arg[2] = QRCodeModel1 /\ Len(ret.arg[1]) = 1167
    /\ ret.err = ""

\* the values the claim gives for a model, size and correction level byte
NormalModel(m) == IF m \in {49, 50} THEN m ELSE 50
NormalSize(z) == IF z = 0 THEN 1 ELSE IF z > 16 THEN 16 ELSE z
NormalLevel(l) == IF l \in 48..51 THEN l ELSE 48

\* C15: the frames of a QRCode call carry the model 49 or 50 (50 for every
\* other byte), the size clamped to 1..16 and the correction level 48..51
\* (48 for every other byte).
C15_QRCodeNormalizes ==
    (ret.op = "QRCode" /\ ret.err = "")
    => /\ frames[1].data[8] = NormalModel(ret.arg[2])
       /\ frames[2].data[8] = NormalSize(ret.arg[3])
       /\ frames[3].data[8] = NormalLevel(ret.arg[4])
       /\ frames[1].data[8] \in {49, 50}
       /\ frames[2].data[8] \in 1..16
       /\ frames[3].data[8] \in 48..51

C15_Witness ==
    /\ ret.op = "QRCode" /\ ret.err = ""
    /\ ret.arg[2] = 255 /\ ret.arg[3] = 255 /\ ret.arg[4] = 255
    /\ frames[1].data[8] = 50 /\ frames[2].data[8] = 16 /\ frames[3].data[8] = 48

\* the five frames of QRCode(code, m, z, l) as the claim lists them
QRExpected(code, m, z, l) ==
    << <<gs, 40, 107, 4, 0, 49, 65, NormalModel(m), 0>>,
       <<gs, 40, 107, 3, 0, 49, 67, NormalSize(z)>>,
       <<gs, 40, 107, 3, 0, 49, 69, NormalLevel(l)>>,
       <<gs, 40, 107, (Len(code) + 3) % 256, (Len(code) + 3) \div 256, 49, 80, 48>> \o code,
       <<gs, 40, 107, 3, 0, 49, 81, 48>> >>

\* C16: a QRCode call that succeeds appends its five frames to the output,
\* one after the other and in order; the frames of a call that fails are the
\* first of the five up to the one that failed, and none after it.
C16_QRCodeFrameOrder ==
    [][ (ops' = ops + 1 /\ ret'.op = "QRCode" /\ frames' # <<>>)
        => LET five == QRExpected(ret'.arg[1], ret'.arg[2], ret'.arg[3], ret'.arg[4]) IN
           /\ Len(frames') <= 5
           /\ \A i \in 1..Len(frames'):
                 /\ frames'[i].data = five[i]
                 /\ frames'[i].ok <=> (i < Len(frames') \/ ret'.err = "")
           /\ ret'.err = ""
              => /\ Len(frames') = 5
                 /\ wire' \o buf' =
                      wire \o buf \o five[1] \o five[2] \o five[3] \o five[4] \o five[5] ]_vars

C16_Witness ==
    /\ ops = 2
    /\ ret.op = "QRCode" /\ ret.err = ""
    /\ Len(frames) = 5
    /\ Len(buf) > FrameBytes(frames)

\* C17: the length bytes pL, pH of the store-data frame of an accepted
\* payload are bytes with pL + 256 * pH = len(payload) + 3, pL the low byte.
C17_QRCodeLengthField ==
    (ret.op = "QRCode" /\ ret.err = "")
    => LET pL == frames[4].data[4]
           pH == frames[4].data[5] IN
       /\ pL \in Byte /\ pH \in Byte
       /\ pL + 256 * pH = Len(ret.arg[1]) + 3
       /\ pL = (Len(ret.arg[1]) + 3) % 256

C17_Witness ==
    /\ ret.op = "QRCode" /\ ret.err = ""
    /\ Len(ret.arg[1]) = 253
    /\ frames[4].data[4] = 0 /\ frames[4].data[5] = 1

\* the setters of the session that send a command
SetterOps ==
    {"SetBold", "SetAlign", "SetSize", "SetFont", "HRIPosition", "HRIFont",
     "BarcodeHeight", "BarcodeWidth", "MotionUnits", "DefaultLineSpacing",
     "LineSpacing", "Initialize"}

Last(s, n) == SubSeq(s, Len(s) - n + 1, Len(s))

KeepStyleOps ==
    {"Write", "WriteRaw", "Barcode", "QRCode", "PrintImageWithProcessing", "Cut",
     "OpenDrawer", "Print", "PrintAndCut", "QueryStatus", "IsOnline", "PaperStatus",
     "SetConfig"}

\* C21: a call that is no style setter and no default call leaves every
\* field of the style as it was.
C21_StyleKept ==
    [][ (ops' = ops + 1 /\ ret'.op \in KeepStyleOps) => Style' = Style ]_vars

C21_Witness ==
    /\ ops = 2
    /\ ret.op = "Write" /\ ret.err = ""
    /\ Style.Width = 8 /\ Style.Height = 1

\* the frame f unless off
Unless(off, f) == IF off THEN <<>> ELSE <<f>>

\* the frames the claim gives for Write(text) with configuration conf and
\* style st
WriteExpected(conf, st, text) ==
    Unless(conf.DisableBold, <<esc, 69, IF st.Bold THEN 1 ELSE 0>>)
    \o Unless(conf.DisableUnderline, <<esc, 45, st.Underline>>)
    \o Unless(conf.DisableReverse, <<gs, 66, IF st.Reverse THEN 1 ELSE 0>>)
    \o Unless(conf.DisableRotate, <<esc, 86, IF st.Rotate THEN 1 ELSE 0>>)
    \o Unless(conf.DisableUpsideDown, <<esc, 123, IF st.UpsideDown THEN 1 ELSE 0>>)
    \o Unless(conf.DisableJustify, <<esc, 97, st.Justify>>)
    \o << <<gs, 33, 16 * (st.Width - 1) + (st.Height - 1)>> >>
    \o Unless(text = <<>>, text)

\* the frames of fs one after the other
RECURSIVE Flatten(_)
Flatten(fs) == IF fs = <<>> THEN <<>> ELSE Head(fs) \o Flatten(Tail(fs))

Clamp(v, lo, hi) == CHOOSE c \in lo..hi: \A d \in lo..hi: (c - v) * (c - v) <= (d - v) * (d - v)

\* C23: OpenDrawer(pin, time) queues {ESC, 'p', pin', t, t}, pin' being pin
\* when pin is 0 or 1 and 0 otherwise, t being time held between 1 and 8; it
\* returns no error for any pin and time.
C23_OpenDrawerClamps ==
    ret.op = "OpenDrawer"
    => /\ ret.err = "" /\ ret.n = 5
       /\ Len(frames) = 1
       /\ frames[1].data
            = <<esc, 112, IF ret.arg[1] \in {0, 1} THEN ret.arg[1] ELSE 0,
                Clamp(ret.arg[2], 1, 8), Clamp(ret.arg[2], 1, 8)>>
       /\ buf = frames[1].data

C23_Witness ==
    /\ ret.op = "OpenDrawer" /\ ret.arg = <<5, 0>>
    /\ ret.err = ""
    /\ buf = <<esc, 112, 0, 1, 1>>

\* C24: BarcodeWidth queues {GS, 'w', p'} with p' the argument held between
\* 2 and 6, BarcodeHeight queues {GS, 'h', p} with p as it was passed, for
\* every p of 0..255; an error either returns comes from a write to a broken
\* transport, never from the argument.
C24_BarcodeDimensions ==
    /\ ret.op = "BarcodeWidth"
       => /\ Len(frames) = 1
          /\ frames[1].data = <<gs, 119, Clamp(ret.arg, 2, 6)>>
          /\ ret.err # "" => (tx # "ok" /\ ~frames[1].ok)
    /\ ret.op = "BarcodeHeight"
       => /\ Len(frames) = 1
          /\ frames[1].data = <<gs, 104, ret.arg>>
          /\ ret.err # "" => (tx # "ok" /\ ~frames[1].ok)

C24_Witness ==
    /\ ret.op = "BarcodeWidth" /\ ret.arg = 0
    /\ ret.err = "" /\ ret.n = 3
    /\ buf = <<esc, 64, gs, 119, 2>>

\* now + specific when it is positive, otherwise now + general when that is
\* positive, otherwise the deadline left as it was
FreshDeadline(now, specific, general, old) ==
    CASE specific > 0 -> now + specific
      [] specific <= 0 /\ general > 0 -> now + general
      [] OTHER -> old

\* the call op has just been made on an open connection
NetCall(op) == np.conn = "open" /\ np'.op = op /\ np' # np

\* C25: every Read on the connection puts its read deadline at the time of
\* the call plus readTimeout when readTimeout > 0, otherwise plus timeout
\* when timeout > 0, and otherwise sets none; every Write does the same to
\* the write deadline with writeTimeout. With a deadline set the call fails
\* exactly when the peer is not done before it.
C25_FreshDeadlinePerCall ==
    [][ /\ NetCall("Read")
           => /\ np'.readDeadline
                   = FreshDeadline(np.now, np.readTimeout, np.timeout, np.readDeadline)
              /\ np'.writeDeadline = np.writeDeadline
              /\ np'.readDeadline # 0
                 => (np'.err # "" <=> np.now + np'.arg[1] >= np'.readDeadline)
        /\ NetCall("Write")
           => /\ np'.writeDeadline
                   = FreshDeadline(np.now, np.writeTimeout, np.timeout, np.writeDeadline)
              /\ np'.readDeadline = np.readDeadline
              /\ np'.writeDeadline # 0
                 => (np'.err # "" <=> np.now + np'.arg[1] >= np'.writeDeadline) ]_vars

\* a second Read, made at time 3, with timeout 2 and readTimeout 1: its
\* deadline is 4
C25_Witness ==
    /\ np.op = "Read" /\ np.conn = "open"
    /\ np.timeout = 2 /\ np.readTimeout = 1
    /\ np.readDeadline = 4 /\ np.now = 3
    /\ np.err = ""

\* the options of the list opts that set an absolute deadline
DeadlineOptions(opts) ==
    {i \in 1..Len(opts): opts[i].opt \in {"WithDeadline", "WithReadDeadline", "WithWriteDeadline"}}

\* C26: NewNetworkPrinter with an absolute-deadline option and a reachable
\* address returns a printer with an open connection and no error.
C26_DeadlineOptionApplies ==
    (/\ np.op = "NewNetworkPrinter"
     /\ DeadlineOptions(np.arg[1]) # {}
     /\ np.arg[2])
    => np.conn = "open" /\ np.err = ""

\* the data of the frames fs, one after the other
RECURSIVE FrameData(_)
FrameData(fs) == IF fs = <<>> THEN <<>> ELSE Head(fs).data \o FrameData(Tail(fs))

\* C28: while the transport accepts every write, each call leaves the wire
\* followed by the buffer equal to what they held before followed by the
\* frames the call queued, in order, and the wire grows at its end only: the
\* wire is a prefix of the frames queued since the session began, no byte
\* lost, doubled or moved. After a Print, PrintAndCut or status call that
\* returns no error the buffer is empty, the wire being all of them, the
\* status request last.
C28_WireIsPrefixOfQueued ==
    [][ (ops' = ops + 1 /\ tx = "ok")
        => /\ wire' \o buf' = wire \o buf \o FrameData(frames')
           /\ Len(wire') >= Len(wire) /\ Take(wire', Len(wire)) = wire
           /\ (ret'.op \in FlushingOps /\ ret'.err = "") => buf' = <<>>
           /\ (ret'.op \in StatusOps /\ ret'.err = "")
              => wire' = wire \o buf \o StatusRequest(ret') ]_vars

C28_Witness ==
    /\ ops = 2 /\ tx = "ok"
    /\ ret.op = "QueryStatus" /\ ret.err = ""
    /\ buf = <<>>
    /\ Len(wire) > 3
    /\ Last(wire, 3) = <<dle, 4, ret.arg.statusType>>

C30_OnlyDigitsNonEmpty ==
    ret.op = "onlyDigits"
    => (ret.val <=> (ret.arg # <<>> /\ AllDigits(ret.arg)))

====
